---- MODULE Spec2Model ----
(***************************************************************************)
(* FlaskFloodgate: per-IP rate limiting.                                   *)
(*                                                                         *)
(* The repository holds three decision engines:                            *)
(*   - RateLimiter.rate_limited_route.inner (src/FlaskFloodgate/__init__)  *)
(*     which works on a record store through get_ip / save_ip /            *)
(*     is_blacklisted / is_whitelisted / blacklist_ip(ip, ddw); that store *)
(*     class is not among the source files, so its operations are taken    *)
(*     from the store contract of the specification;                       *)
(*   - MemoryHandler.update_ip (src/FlaskFloodgate/handlers.py);           *)
(*   - Sqlite3Handler.update_ip (src/FlaskFloodgate/handlers.py).          *)
(* The variable db says which one an instance runs.  time.time() is an     *)
(* integer clock, so round() of a time is the time itself.                 *)
(***************************************************************************)
EXTENDS Integers, FiniteSets, Sequences, TLC

\* ------------------------------------------------------------------ bounds
MaxTime == 2        \* the clock stops at MaxTime
MaxOver == 3        \* no request once a stored counter is amount + MaxOver
MaxExpiry == 9      \* no request once a stored expiry is above MaxExpiry
ThrCap == 2         \* hist.thr stops counting at ThrCap
AdmCap == 5         \* hist.adm stops counting at AdmCap

Keys == {"k1", "k2"}
Threads == {"t1", "t2"}

\* ------------------------------------------------------------- sentinels
FOREVER == -1       \* block_exceed_duration = "FOREVER"
NoLimit == -1       \* block_limit = None
NoRule == [callable |-> FALSE, accepts |-> {}]    \* RateLimiter.rule = None

Engines == {"RateLimiter", "MemoryHandler", "Sqlite3Handler"}

VARIABLES
    db,         \* which engine / store the instance runs
    cfg,        \* the constructor parameters
    now,        \* time.time()
    cache,      \* the window records: key -> [amount, lwrl, blocked]
    blacklist,  \* the blacklisted keys
    whitelist,  \* the whitelisted keys
    rule,       \* RateLimiter.rule
    response,   \* what the request handled by the last step was answered
    flight,     \* the requests being handled: thread -> what it has read so far
    watch,      \* the key whose history is recorded in hist ("" for none)
    hist        \* history of the watched key (not program state)

vars == <<db, cfg, now, cache, blacklist, whitelist, rule, response, flight, watch, hist>>

params == <<db, cfg, watch>>

\* ------------------------------------------------------------ dictionaries
Put(c, ip, r) == [k \in (DOMAIN c) \cup {ip} |-> IF k = ip THEN r ELSE c[k]]

Pop(c, ip) == [k \in (DOMAIN c) \ {ip} |-> c[k]]

Empty == [k \in {} |-> 0]

IP(a, l, b) == [amount |-> a, lwrl |-> l, blocked |-> b]

Reply(ip, d, r) == [ip |-> ip, decision |-> d, retry |-> r]

\* no request was handled by the last step
NoReply == Reply("", "None", 0)

\* what a call on the store or handler leaves behind and answers
Out(c, bl, d, r) == [cache |-> c, blacklist |-> bl, decision |-> d, retry |-> r]

Max(a, b) == IF a >= b THEN a ELSE b

\* ------------------------------------------------------------ RateLimiter
\* mutant: the carried quota already counts the request that opens the window
check_ip_obj_counted(c, ip_str, crtime) ==
    IF ip_str \notin DOMAIN c
    THEN IP(0, crtime + cfg.window, 0)
    ELSE IF c[ip_str].lwrl <= crtime
         THEN IP(IF ~cfg.accumulate THEN 0 ELSE 1 - (cfg.amount - c[ip_str].amount),
                 crtime + cfg.window, 0)
         ELSE c[ip_str]

\* RateLimiter._check_ip_obj: the record the decision works on.
check_ip_obj(c, ip_str, crtime) ==
    IF ip_str \notin DOMAIN c
    THEN IP(0, crtime + cfg.window, 0)
    ELSE IF c[ip_str].lwrl <= crtime
         THEN IP(IF ~cfg.accumulate THEN 0 ELSE -(cfg.amount - c[ip_str].amount),
                 crtime + cfg.window, 0)
         ELSE c[ip_str]

\* mutant: the limit is reached, not exceeded
limit_reached(blocked) ==
    cfg.block_limit # NoLimit /\ cfg.block_limit # 0 /\ blocked >= cfg.block_limit

\* the block_limit test of inner: None and 0 are both falsy
limit_exceeded(blocked) ==
    cfg.block_limit # NoLimit /\ cfg.block_limit # 0 /\ blocked > cfg.block_limit

\* mutant: every blocked request restarts the timer
block_timer_always(ip0, crtime) == crtime + cfg.block_duration

\* the expiry after lines 317-323 of inner: the first blocked request of a
\* window starts the block timer, a later one restarts it under relative_block
block_timer(ip0, crtime) ==
    IF (ip0.amount + 1) - 2 < cfg.amount \/ cfg.relative_block
    THEN crtime + cfg.block_duration
    ELSE ip0.lwrl

\* mutant: the expiry itself is reported
retry_after_absolute(lwrl, crtime) == lwrl

\* line 354: round(max(ip.lwrl - crtime, 0)), the seconds a throttled key is
\* told to wait
retry_after(lwrl, crtime) == Max(lwrl - crtime, 0)

\* The body of inner from `ip.amount += 1` on, for the record ip0 that
\* _check_ip_obj returned; isbl is the answer of the is_blacklisted call of
\* line 327.  write says which store call inner then makes.
inner(ip0, crtime, isbl) ==
    LET amt == ip0.amount + 1
        blk == ip0.blocked + 1
        first == amt - 2 < cfg.amount
        amt2 == IF first THEN cfg.amount + 1 ELSE amt
        l1 == block_timer(ip0, crtime)
        esc == limit_exceeded(blk)
        firstbld == blk - 2 < cfg.block_limit
        blk2 == IF esc /\ firstbld THEN cfg.block_limit + 1 ELSE blk
        l2 == IF esc /\ (firstbld \/ cfg.relative_block) THEN crtime + cfg.bld ELSE l1
    IN  IF amt <= cfg.amount
        THEN [write |-> "save_ip", ip |-> IP(amt, ip0.lwrl, ip0.blocked),
              decision |-> "Admit", retry |-> 0]
        ELSE IF esc /\ firstbld /\ cfg.bld = FOREVER /\ ~isbl
        THEN [write |-> "blacklist_ip", ip |-> IP(amt2, l1, blk),
              decision |-> "Admit", retry |-> 0]
        ELSE IF esc /\ (firstbld \/ cfg.relative_block) /\ cfg.bld = FOREVER
        THEN [write |-> "none", ip |-> IP(amt2, l1, blk2),      \* crtime + "FOREVER"
              decision |-> "TypeError", retry |-> 0]
        ELSE [write |-> "save_ip", ip |-> IP(amt2, l2, blk2),
              decision |-> "Throttled", retry |-> retry_after(l2, crtime)]

\* the store behind RateLimiter.db: save, blacklist, whitelist and their inverses
save_ip(c, ip_str, ip) == Put(c, ip_str, ip)

\* mutant: blacklisting leaves the whitelist alone
store_blacklist_ip_only(st, ip_str, ddw) ==
    [cache |-> IF ddw THEN Pop(st.cache, ip_str) ELSE st.cache,
     blacklist |-> st.blacklist \cup {ip_str},
     whitelist |-> st.whitelist]

store_blacklist_ip(st, ip_str, ddw) ==
    [cache |-> IF ddw THEN Pop(st.cache, ip_str) ELSE st.cache,
     blacklist |-> st.blacklist \cup {ip_str},
     whitelist |-> st.whitelist \ {ip_str}]

store_whitelist_ip(st, ip_str, ddw) ==
    [cache |-> IF ddw THEN Pop(st.cache, ip_str) ELSE st.cache,
     blacklist |-> st.blacklist \ {ip_str},
     whitelist |-> st.whitelist \cup {ip_str}]

store_de_blacklist_ip(st, ip_str) == [st EXCEPT !.blacklist = @ \ {ip_str}]

store_de_whitelist_ip(st, ip_str) == [st EXCEPT !.whitelist = @ \ {ip_str}]

Store == [cache |-> cache, blacklist |-> blacklist, whitelist |-> whitelist]

SetStore(st) ==
    /\ cache' = st.cache
    /\ blacklist' = st.blacklist
    /\ whitelist' = st.whitelist

\* RateLimiter.attempt_func.  The loop state: left iterations, whether it
\* left by break, whether fail_msg was logged at level 50, and whether an
\* exception left the function.
attempt_func_start(attempts) ==
    [left |-> attempts, done |-> FALSE, critical |-> FALSE, raised |-> FALSE]

\* mutant: the exception of the last attempt is raised again
attempt_func_reraise(a, succeeds) ==
    IF succeeds THEN [a EXCEPT !.done = TRUE]
    ELSE [a EXCEPT !.left = @ - 1, !.raised = (a.left = 1)]

\* mutant: no break after a call that succeeded
attempt_func_no_break(a, succeeds) == [a EXCEPT !.left = @ - 1]

\* one iteration: func is called; it returns (break) or raises (except, sleep)
attempt_func(a, succeeds) ==
    IF succeeds THEN [a EXCEPT !.done = TRUE] ELSE [a EXCEPT !.left = @ - 1]

\* the loop is over: by break, or exhausted, which logs fail_msg (for ... else)
attempt_func_exit(a) == [a EXCEPT !.critical = ~a.done]

\* mutant: the whitelist is looked up before the rule is asked
store_calls_lookup_first(ip_str, crtime) ==
    IF rule.callable /\ ip_str \in rule.accepts THEN <<"is_whitelisted">>
    ELSE IF ip_str \in whitelist THEN <<"is_whitelisted">>
    ELSE IF ip_str \in blacklist THEN <<"is_whitelisted", "is_blacklisted">>
    ELSE LET r == inner(check_ip_obj(cache, ip_str, crtime), crtime, FALSE)
         IN  <<"is_whitelisted", "is_blacklisted", "get_ip">> \o
             (CASE r.write = "save_ip" -> <<"save_ip">>
                [] r.write = "blacklist_ip" -> <<"is_blacklisted", "blacklist_ip">>
                [] OTHER -> << >>)

\* The calls of self.db that inner makes for one request, in their order.
\* Line 303 is `(self.rule and self.rule(ip_str)) or self.db.is_whitelisted(...)`:
\* `or` asks the store only when the rule did not accept.  The blacklisting of
\* line 327-336 is preceded by a second is_blacklisted call.
store_calls(ip_str, crtime) ==
    IF rule.callable /\ ip_str \in rule.accepts THEN << >>
    ELSE IF ip_str \in whitelist THEN <<"is_whitelisted">>
    ELSE IF ip_str \in blacklist THEN <<"is_whitelisted", "is_blacklisted">>
    ELSE LET r == inner(check_ip_obj(cache, ip_str, crtime), crtime, FALSE)
         IN  <<"is_whitelisted", "is_blacklisted", "get_ip">> \o
             (CASE r.write = "save_ip" -> <<"save_ip">>
                [] r.write = "blacklist_ip" -> <<"is_blacklisted", "blacklist_ip">>
                [] OTHER -> << >>)

\* mutant: the blacklist is tested before the rule and the whitelist
bypassed_unless_blacklisted(ip_str) ==
    /\ ip_str \notin blacklist
    /\ (rule.callable /\ ip_str \in rule.accepts) \/ ip_str \in whitelist

\* mutant: the whitelist is not consulted
bypassed_rule_only(ip_str) == rule.callable /\ ip_str \in rule.accepts

\* the first test of inner: the rule accepts the request or the key is whitelisted
bypassed(ip_str) == (rule.callable /\ ip_str \in rule.accepts) \/ ip_str \in whitelist

\* no request is modelled for a key whose stored counters have reached the bounds
InBounds(ip_str) ==
    ip_str \in DOMAIN cache =>
        /\ cache[ip_str].amount < cfg.amount + MaxOver
        /\ cache[ip_str].lwrl <= MaxExpiry

\* ---------------------------------------------------------- MemoryHandler
\* MemoryHandler.blacklist_ip: pop the record, append to the list (the list is
\* only ever tested for membership and never shrinks, so a set stands for it)
mem_blacklist_ip(c, bl, ip) == [cache |-> Pop(c, ip), blacklist |-> bl \cup {ip}]

\* the value update_ip stores when it opens a window over an old record
reset_amount(org_amt) ==
    IF cfg.accumulate /\ ~(org_amt > cfg.amount) THEN 1 - (cfg.amount - org_amt) ELSE 0

\* MemoryHandler.update_ip after its blacklist test.  ip_data aliases the stored
\* dictionary, so what it was given before an exception is in the cache.
mem_window(c, bl, ip, crtime) ==
    IF ip \notin DOMAIN c THEN Out(c, bl, "KeyError", 0)          \* line 237
    ELSE IF c[ip].lwrl <= crtime
    THEN Out(Put(c, ip, IP(reset_amount(c[ip].amount), crtime + cfg.window, 0)),
             bl, "Admit", 0)
    ELSE
    LET amt == c[ip].amount + 1
        capped == ~cfg.relative_block /\ amt - 2 >= cfg.amount
        amt2 == IF capped THEN cfg.amount + 1 ELSE amt
        l1 == IF capped THEN c[ip].lwrl ELSE crtime + cfg.window
        blk == c[ip].blocked + 1
    IN  IF amt <= cfg.amount
        THEN Out(Put(c, ip, IP(amt, c[ip].lwrl, c[ip].blocked)), bl, "Admit", 0)
        ELSE IF cfg.block_limit = NoLimit                         \* int > None
        THEN Out(Put(c, ip, IP(amt2, l1, blk)), bl, "TypeError", 0)
        ELSE IF blk > cfg.block_limit
        THEN IF cfg.bld = FOREVER
             THEN LET b == mem_blacklist_ip(Pop(c, ip), bl, ip)
                  IN  Out(b.cache, b.blacklist, "Blacklisted", 0)
             ELSE Out(Put(c, ip, IP(amt2, l1 + cfg.bld,
                                    IF cfg.ber THEN 0 ELSE cfg.block_limit)),
                      bl, "Throttled", l1 + cfg.bld - crtime)
        ELSE Out(Put(c, ip, IP(amt2, l1, blk)), bl, "Throttled", l1 - crtime)

\* mutant: the blacklist test raises IPRateLimitExceeded, not IPBlackListed
mem_update_ip_rate_limited(c, bl, ip, crtime) ==
    IF ip \in bl THEN Out(c, bl, "Throttled", 0) ELSE mem_window(c, bl, ip, crtime)

mem_update_ip(c, bl, ip, crtime) ==
    IF ip \in bl THEN Out(c, bl, "Blacklisted", 0) ELSE mem_window(c, bl, ip, crtime)

\* MemoryHandler.cleanup, one cycle
mem_cleanup(c, crtime) ==
    [ip \in {k \in DOMAIN c : c[k].lwrl + cfg.mwd > crtime} |-> c[ip]]

\* --------------------------------------------------------- Sqlite3Handler
\* mutant: the UPDATE replaces the rows it collides with
update_result_replace(c, ip, data) ==
    [ok |-> TRUE, cache |-> IF DOMAIN c = {} THEN c ELSE [k \in {ip} |-> data]]

\* Sqlite3Handler.update_result: UPDATE without WHERE sets every row to data;
\* ip is the primary key, so with two rows or more the statement fails and
\* changes nothing.
update_result(c, ip, data) ==
    IF Cardinality(DOMAIN c) > 1
    THEN [ok |-> FALSE, cache |-> c]
    ELSE [ok |-> TRUE, cache |-> IF DOMAIN c = {} THEN c ELSE [k \in {ip} |-> data]]

\* Sqlite3Handler.delete_ip
delete_ip(c, ip) == Pop(c, ip)

\* Sqlite3Handler.blacklist_ip: INSERT INTO the blacklist table
sql_blacklist_ip(bl, ip) == bl \cup {ip}

\* the answer of update_ip after an update_result
Updated(u, bl, d, r) ==
    IF u.ok THEN Out(u.cache, bl, d, r) ELSE Out(u.cache, bl, "IntegrityError", 0)

\* Sqlite3Handler.update_ip after its blacklist test
sql_window(c, bl, ip, crtime) ==
    IF ip \notin DOMAIN c
    THEN Out(Put(c, ip, IP(1, crtime + cfg.window, 0)), bl, "Admit", 0)
    ELSE IF c[ip].lwrl <= crtime
    THEN Updated(update_result(c, ip, IP(reset_amount(c[ip].amount),
                                         crtime + cfg.window, 0)),
                 bl, "Admit", 0)
    ELSE
    LET amt == c[ip].amount + 1
        capped == ~cfg.relative_block /\ amt - 2 >= cfg.amount
        amt2 == IF capped THEN cfg.amount + 1 ELSE amt
        l1 == IF capped THEN c[ip].lwrl ELSE crtime + cfg.window
        blk == c[ip].blocked + 1
    IN  IF amt <= cfg.amount
        THEN Updated(update_result(c, ip, IP(amt, c[ip].lwrl, c[ip].blocked)),
                     bl, "Admit", 0)
        ELSE IF cfg.block_limit = NoLimit                         \* int > None
        THEN Out(c, bl, "TypeError", 0)
        ELSE IF blk > cfg.block_limit
        THEN IF cfg.bld = FOREVER
             THEN Out(delete_ip(c, ip), sql_blacklist_ip(bl, ip), "Blacklisted", 0)
             ELSE Updated(update_result(c, ip,
                              IP(amt2, l1 + cfg.bld,
                                 IF cfg.ber THEN 0 ELSE cfg.block_limit)),
                          bl, "Throttled", l1 + cfg.bld - crtime)
        ELSE Updated(update_result(c, ip, IP(amt2, l1, blk)),
                     bl, "Throttled", l1 - crtime)

\* mutant: the blacklist table is not consulted
sql_update_ip_unchecked(c, bl, ip, crtime) == sql_window(c, bl, ip, crtime)

sql_update_ip(c, bl, ip, crtime) ==
    IF ip \in bl THEN Out(c, bl, "Blacklisted", 0) ELSE sql_window(c, bl, ip, crtime)

\* mutant: a row whose retention ends now is kept
sql_cleanup_strict(c, crtime) ==
    [ip \in {k \in DOMAIN c : ~(c[k].lwrl < crtime - cfg.mwd)} |-> c[ip]]

\* mutant: every row whose expiry has passed is deleted
sql_cleanup_expired(c, crtime) ==
    [ip \in {k \in DOMAIN c : ~(c[k].lwrl <= crtime)} |-> c[ip]]

\* Sqlite3Handler.cleanup, one cycle
sql_cleanup(c, crtime) ==
    [ip \in {k \in DOMAIN c : ~(c[k].lwrl <= crtime - cfg.mwd)} |-> c[ip]]

\* ---------------------------------------------------------------- history
\* hist.adm: Admit answers to the watched key since its window was opened and
\* before the first Throttled answer in it (hist.thrw: there was one);
\* hist.prev: accumulate_requests is on and that window was opened over an
\* expired record, whose stored amount was hist.c and in whose window hist.u
\* requests were answered Admit;
\* hist.thr: with a block limit set, Throttled answers to the watched key so
\* far (up to ThrCap);
\* hist.admin: the operator has blacklisted the watched key.
\* hist.n: where requests overlap, the requests of the watched key answered by
\* the engine so far (up to AdmCap).
NoHist ==
    [adm |-> 0, thrw |-> FALSE, prev |-> FALSE, c |-> 0, u |-> 0, thr |-> 0,
     admin |-> FALSE, n |-> 0]

Min(a, b) == IF a <= b THEN a ELSE b

\* the request finds no record or an expired one (the test of _check_ip_obj
\* and of update_ip)
opens(c, ip, crtime) == ip \notin DOMAIN c \/ c[ip].lwrl <= crtime

\* a request of ip at crtime found the records c and was answered d
Observe(h, c, ip, crtime, d) ==
    LET carried == cfg.accumulate /\ ip \in DOMAIN c
        o == IF opens(c, ip, crtime)
             THEN [h EXCEPT !.adm = 0, !.thrw = FALSE,
                            !.prev = carried,
                            !.c = IF carried THEN c[ip].amount ELSE 0,
                            !.u = IF carried THEN h.adm ELSE 0]
             ELSE h
    IN  IF d \notin {"Admit", "Throttled", "Blacklisted"} THEN h
        ELSE [o EXCEPT !.adm = IF d = "Admit" /\ ~o.thrw THEN Min(@ + 1, AdmCap) ELSE @,
                       !.thrw = @ \/ d = "Throttled",
                       !.thr = IF d = "Throttled" /\ cfg.block_limit # NoLimit
                               THEN Min(@ + 1, ThrCap) ELSE @]

\* a request of the watched key, one of several in progress, was answered d
ObserveOverlapped(h, d) ==
    [h EXCEPT !.n = Min(@ + 1, AdmCap),
              !.adm = IF d = "Admit" THEN Min(@ + 1, AdmCap) ELSE @]

\* ---------------------------------------------------------------- actions
Idle == [t \in Threads |-> [pc |-> "idle"]]

\* RateLimiter.rate_limited_route.inner, handled without interruption: its
\* answer and what it does to the store
Handle(ip_str) ==
    /\ db = "RateLimiter"
    /\ LET crtime == now IN
       IF bypassed(ip_str)
       THEN /\ response' = Reply(ip_str, "Admit", 0)
            /\ UNCHANGED <<cache, blacklist, whitelist, hist>>
       ELSE IF ip_str \in blacklist
       THEN /\ response' = Reply(ip_str, "Blacklisted", 0)
            /\ UNCHANGED <<cache, blacklist, whitelist, hist>>
       ELSE LET r == inner(check_ip_obj(cache, ip_str, crtime), crtime,
                           ip_str \in blacklist)
            IN  /\ response' = Reply(ip_str, r.decision, r.retry)
                /\ SetStore(CASE r.write = "save_ip" ->
                                    [Store EXCEPT !.cache = save_ip(cache, ip_str, r.ip)]
                               [] r.write = "blacklist_ip" ->
                                    store_blacklist_ip(Store, ip_str, cfg.ddw)
                               [] OTHER -> Store)
                /\ hist' = IF ip_str = watch
                           THEN Observe(hist, cache, ip_str, crtime, r.decision)
                           ELSE hist
    /\ UNCHANGED <<params, now, rule>>

Route(ip_str) == Handle(ip_str) /\ UNCHANGED flight

\* a request to a rate-limited route, within the bounds
RateLimitedRoute(ip_str) == InBounds(ip_str) /\ Route(ip_str)

\* a call of update_ip of the handler the instance runs
Update(ip) ==
    /\ db \in {"MemoryHandler", "Sqlite3Handler"}
    /\ LET r == IF db = "MemoryHandler"
                THEN mem_update_ip(cache, blacklist, ip, now)
                ELSE sql_update_ip(cache, blacklist, ip, now)
       IN  /\ cache' = r.cache
           /\ blacklist' = r.blacklist
           /\ response' = Reply(ip, r.decision, r.retry)
           /\ hist' = IF ip = watch /\ ip \notin blacklist
                      THEN Observe(hist, cache, ip, now, r.decision)
                      ELSE hist
    /\ UNCHANGED <<params, now, whitelist, rule, flight>>

\* a call of update_ip, within the bounds
UpdateIp(ip) == InBounds(ip) /\ Update(ip)

\* mutant: the cycle empties the blacklist as well
CleanupLists ==
    /\ db \in {"MemoryHandler", "Sqlite3Handler"}
    /\ now >= cfg.mwd
    /\ cache' = IF db = "MemoryHandler"
                THEN mem_cleanup(cache, now) ELSE sql_cleanup(cache, now)
    /\ blacklist' = {}
    /\ response' = NoReply
    /\ UNCHANGED <<params, now, whitelist, rule, flight, hist>>

\* the cleanup thread wakes up: it has slept mwd at least once
Cleanup ==
    /\ db \in {"MemoryHandler", "Sqlite3Handler"}
    /\ now >= cfg.mwd
    /\ cache' = IF db = "MemoryHandler"
                THEN mem_cleanup(cache, now) ELSE sql_cleanup(cache, now)
    /\ response' = NoReply
    /\ UNCHANGED <<params, now, blacklist, whitelist, rule, flight, hist>>

\* the operator (terminal_op, or a direct call of the handler's blacklist_ip)
Blacklist(ip) ==
    /\ CASE db = "RateLimiter" -> SetStore(store_blacklist_ip(Store, ip, cfg.ddw))
         [] db = "MemoryHandler" ->
                /\ cache' = mem_blacklist_ip(cache, blacklist, ip).cache
                /\ blacklist' = mem_blacklist_ip(cache, blacklist, ip).blacklist
                /\ UNCHANGED whitelist
         [] OTHER -> /\ blacklist' = sql_blacklist_ip(blacklist, ip)
                     /\ UNCHANGED <<cache, whitelist>>
    /\ response' = NoReply
    /\ hist' = IF ip = watch THEN [hist EXCEPT !.admin = TRUE] ELSE hist
    /\ UNCHANGED <<params, now, rule, flight>>

DeBlacklist(ip) ==
    /\ db = "RateLimiter"
    /\ SetStore(store_de_blacklist_ip(Store, ip))
    /\ response' = NoReply
    /\ UNCHANGED <<params, now, rule, flight, hist>>

Whitelist(ip) ==
    /\ db = "RateLimiter"
    /\ SetStore(store_whitelist_ip(Store, ip, cfg.ddw))
    /\ response' = NoReply
    /\ UNCHANGED <<params, now, rule, flight, hist>>

DeWhitelist(ip) ==
    /\ db = "RateLimiter"
    /\ SetStore(store_de_whitelist_ip(Store, ip))
    /\ response' = NoReply
    /\ UNCHANGED <<params, now, rule, flight, hist>>

\* mutant: a rule that is set is replaced without override
set_rule_replace(old, r, override) ==
    IF ~r.callable THEN [rule |-> old, raised |-> "ValueError"]
    ELSE [rule |-> r, raised |-> "None"]

\* RateLimiter.set_rule; r.callable says whether the argument is callable
set_rule(old, r, override) ==
    IF ~r.callable THEN [rule |-> old, raised |-> "ValueError"]
    ELSE IF old.callable /\ ~override THEN [rule |-> old, raised |-> "ValueError"]
    ELSE [rule |-> r, raised |-> "None"]

Rules == {[callable |-> TRUE, accepts |-> {"k1"}], [callable |-> TRUE, accepts |-> {}],
          [callable |-> FALSE, accepts |-> {}]}

\* a call of set_rule between requests; what it raises goes to the caller
SetRule(r, override) ==
    /\ db = "RateLimiter"
    /\ rule' = set_rule(rule, r, override).rule
    /\ response' = NoReply
    /\ UNCHANGED <<params, now, cache, blacklist, whitelist, flight, hist>>

\* a call of set_rule seen from its caller: response says what it raised
CallSetRule(r, override) ==
    /\ db = "RateLimiter"
    /\ rule' = set_rule(rule, r, override).rule
    /\ response' = Reply("", set_rule(rule, r, override).raised, 0)
    /\ UNCHANGED <<params, now, cache, blacklist, whitelist, flight, hist>>

\* time passes
Tick ==
    /\ now < MaxTime
    /\ now' = now + 1
    /\ response' = NoReply
    /\ UNCHANGED <<params, cache, blacklist, whitelist, rule, flight, hist>>

\* ------------------------------------------------------------ parameters
Amounts == {1, 2}
Window == 1
BlockDurations == {2}
BlockLimits == {NoLimit, 0, 1}
Blds == {FOREVER, 2}
Mwd == 1

Config(a, bd, lim, bld, rel, acc, ber, ddw) ==
    [amount |-> a, window |-> Window, block_duration |-> bd, block_limit |-> lim,
     bld |-> bld, relative_block |-> rel, accumulate |-> acc, ber |-> ber,
     ddw |-> ddw, mwd |-> Mwd, der |-> 3]

\* The parameters an engine does not read are held fixed: ber and mwd in
\* RateLimiter, block_duration and ddw in the handlers; so are bld and ber where
\* the block limit keeps the engine from reading them.
Escalations(e, lim) ==
    IF lim = NoLimit \/ (e = "RateLimiter" /\ lim = 0)
    THEN {<<2, TRUE>>}
    ELSE IF e = "RateLimiter"
         THEN {<<bld, TRUE>> : bld \in Blds}
         ELSE {<<FOREVER, TRUE>>} \cup {<<bld, ber>> : bld \in Blds \ {FOREVER}, ber \in BOOLEAN}

ConfigsAt(e, lim) ==
    IF e = "RateLimiter"
    THEN {Config(a, bd, lim, x[1], rel, acc, x[2], ddw) :
            a \in Amounts, bd \in BlockDurations, x \in Escalations(e, lim),
            rel \in BOOLEAN, acc \in BOOLEAN, ddw \in BOOLEAN}
    ELSE {Config(a, Window, lim, x[1], rel, acc, x[2], TRUE) :
            a \in Amounts, x \in Escalations(e, lim),
            rel \in BOOLEAN, acc \in BOOLEAN}

Configs(e) == UNION {ConfigsAt(e, lim) : lim \in BlockLimits}

Start ==
    /\ cfg \in Configs(db)
    /\ now = 0
    /\ cache = Empty
    /\ blacklist = {}
    /\ whitelist = {}
    /\ rule = NoRule
    /\ response = NoReply
    /\ flight = Idle
    /\ hist = NoHist

Init == db \in Engines /\ watch = "" /\ Start

Next ==
    \/ \E ip \in Keys : RateLimitedRoute(ip)
    \/ \E ip \in Keys : UpdateIp(ip)
    \/ Cleanup
    \/ \E ip \in Keys : Blacklist(ip)
    \/ \E ip \in Keys : DeBlacklist(ip)
    \/ \E ip \in Keys : Whitelist(ip)
    \/ \E ip \in Keys : DeWhitelist(ip)
    \/ \E r \in Rules, o \in BOOLEAN : SetRule(r, o)
    \/ Tick

Spec == Init /\ [][Next]_vars

\* the same program with the history of one key recorded
HistInit == db \in Engines /\ watch \in Keys /\ Start

\* the bypass rule and the whitelist keep a request from the engine altogether;
\* they are left out where the engine's answers are counted
HistNext ==
    \/ \E ip \in Keys : RateLimitedRoute(ip)
    \/ \E ip \in Keys : UpdateIp(ip)
    \/ Cleanup
    \/ \E ip \in Keys : Blacklist(ip)
    \/ \E ip \in Keys : DeBlacklist(ip)
    \/ Tick

HistSpec == HistInit /\ [][HistNext]_vars

\* ------------------------------------------------- requests that overlap
\* inner runs on one thread per request and takes no lock: between its
\* get_ip and its save_ip or blacklist_ip another request may run.  The
\* requests below all arrive within the window that the first of them opens.
\* The first half of inner: the bypass, whitelist and blacklist tests, and for
\* a request that passes them the get_ip of _check_ip_obj.
Begin(t, ip_str) ==
    /\ db = "RateLimiter"
    /\ flight[t].pc = "idle"
    /\ InBounds(ip_str)
    /\ IF bypassed(ip_str)
       THEN /\ response' = Reply(ip_str, "Admit", 0)
            /\ UNCHANGED flight
       ELSE IF ip_str \in blacklist
       THEN /\ response' = Reply(ip_str, "Blacklisted", 0)
            /\ UNCHANGED flight
       ELSE /\ response' = NoReply
            /\ flight' = [flight EXCEPT ![t] =
                   [pc |-> "read", ip |-> ip_str, crtime |-> now,
                    ip0 |-> check_ip_obj(cache, ip_str, now)]]
    /\ UNCHANGED <<params, now, cache, blacklist, whitelist, rule, hist>>

\* The second half of inner, on the record read in the first.
Finish(t) ==
    /\ flight[t].pc = "read"
    /\ LET f == flight[t]
           r == inner(f.ip0, f.crtime, f.ip \in blacklist)
       IN  /\ response' = Reply(f.ip, r.decision, r.retry)
           /\ SetStore(CASE r.write = "save_ip" ->
                               [Store EXCEPT !.cache = save_ip(cache, f.ip, r.ip)]
                          [] r.write = "blacklist_ip" ->
                               store_blacklist_ip(Store, f.ip, cfg.ddw)
                          [] OTHER -> Store)
           /\ hist' = IF f.ip = watch THEN ObserveOverlapped(hist, r.decision) ELSE hist
    /\ flight' = [flight EXCEPT ![t] = [pc |-> "idle"]]
    /\ UNCHANGED <<params, now, rule>>

ConcInit == db = "RateLimiter" /\ watch \in Keys /\ Start

ConcNext ==
    \/ \E t \in Threads, ip \in Keys : Begin(t, ip)
    \/ \E t \in Threads : Finish(t)

ConcSpec == ConcInit /\ [][ConcNext]_vars

\* ------------------------------------------------- a store that may fail
\* Every save_ip and blacklist_ip that inner issues through attempt_func may
\* raise; a call that raises leaves the store as it was.  flight[t].calls and
\* flight[t].won record the calls made and whether one succeeded.
Ders == {0, 1, 2}

RetryThreads == {"t1"}

RetryInit ==
    /\ db = "RateLimiter" /\ watch = ""
    /\ cfg \in {[c EXCEPT !.der = d] : c \in Configs("RateLimiter"), d \in Ders}
    /\ now = 0 /\ cache = Empty /\ blacklist = {} /\ whitelist = {}
    /\ rule = NoRule /\ response = NoReply /\ flight = Idle /\ hist = NoHist

\* inner from `ip.amount += 1` up to its call of attempt_func
Decide(t) ==
    /\ flight[t].pc = "read"
    /\ LET f == flight[t]
           r == inner(f.ip0, f.crtime, f.ip \in blacklist)
       IN  IF r.write = "none"
           THEN /\ response' = Reply(f.ip, r.decision, r.retry)
                /\ flight' = [flight EXCEPT ![t] = [pc |-> "idle"]]
           ELSE /\ response' = NoReply
                /\ flight' = [flight EXCEPT ![t] =
                       [pc |-> "attempt", ip |-> f.ip, crtime |-> f.crtime,
                        ip0 |-> f.ip0, isbl |-> f.ip \in blacklist, r |-> r,
                        a |-> attempt_func_start(cfg.der),
                        calls |-> 0, won |-> FALSE]]
    /\ UNCHANGED <<params, now, cache, blacklist, whitelist, rule, hist>>

\* one iteration of attempt_func: the store call succeeds or raises
Attempt(t, succeeds) ==
    /\ flight[t].pc = "attempt"
    /\ LET f == flight[t] IN
       /\ f.a.left > 0 /\ ~f.a.done /\ ~f.a.raised
       /\ flight' = [flight EXCEPT ![t] =
              [f EXCEPT !.a = attempt_func(f.a, succeeds),
                        !.calls = @ + 1, !.won = @ \/ succeeds]]
       /\ SetStore(IF ~succeeds THEN Store
                   ELSE IF f.r.write = "save_ip"
                   THEN [Store EXCEPT !.cache = save_ip(cache, f.ip, f.r.ip)]
                   ELSE store_blacklist_ip(Store, f.ip, cfg.ddw))
    /\ response' = NoReply
    /\ UNCHANGED <<params, now, rule, hist>>

\* attempt_func returns, or an exception leaves it
Exit(t) ==
    /\ flight[t].pc = "attempt"
    /\ LET f == flight[t] IN
       /\ f.a.left = 0 \/ f.a.done \/ f.a.raised
       /\ flight' = [flight EXCEPT ![t] =
              [f EXCEPT !.pc = "return",
                        !.a = IF f.a.raised THEN f.a ELSE attempt_func_exit(f.a)]]
    /\ response' = NoReply
    /\ UNCHANGED <<params, now, cache, blacklist, whitelist, rule, hist>>

\* inner returns what it decided; an exception that left attempt_func would
\* leave inner too
Return(t) ==
    /\ flight[t].pc = "return"
    /\ LET f == flight[t] IN
       response' = IF f.a.raised THEN Reply(f.ip, "StoreError", 0)
                   ELSE Reply(f.ip, f.r.decision, f.r.retry)
    /\ flight' = [flight EXCEPT ![t] = [pc |-> "idle"]]
    /\ UNCHANGED <<params, now, cache, blacklist, whitelist, rule, hist>>

\* what a request in progress does next
Progress(t) ==
    Decide(t) \/ Attempt(t, TRUE) \/ Attempt(t, FALSE) \/ Exit(t) \/ Return(t)

RetryNext ==
    \/ \E t \in RetryThreads, ip \in Keys : Begin(t, ip)
    \/ \E t \in RetryThreads : Progress(t)

\* a request that was begun is run to its end
RetrySpec ==
    RetryInit /\ [][RetryNext]_vars /\ \A t \in RetryThreads : WF_vars(Progress(t))

\* ---- requests overlap with each other and with the operator's blacklisting
RaceInit == db = "RateLimiter" /\ watch = "" /\ Start

RaceNext ==
    \/ \E t \in Threads, ip \in Keys : Begin(t, ip)
    \/ \E t \in Threads : Finish(t)
    \/ \E ip \in Keys : Blacklist(ip)

RaceSpec == RaceInit /\ [][RaceNext]_vars

\* ---- attempt_func called with either backoff, its sleeps recorded
MaxAttempts == 4

Backoffs == {"Linear", "Exponential"}

\* mutant: the delay starts at 1 under either backoff
delay_start_one(backoff) == 1

\* attempt_func, line 231: the delay before the first attempt
delay_start(backoff) == IF backoff = "Linear" THEN 0 ELSE 1

\* attempt_func, lines 239-242: the delay after a failed attempt, which is
\* then slept
delay_next(backoff, delay) == IF backoff = "Linear" THEN delay + 1 ELSE delay * 2

\* attempt_func is entered
CallAttemptFunc(t, backoff, attempts) ==
    /\ flight[t].pc = "idle"
    /\ flight' = [flight EXCEPT ![t] =
           [pc |-> "attempt_func", backoff |-> backoff,
            a |-> attempt_func_start(attempts),
            delay |-> delay_start(backoff), fails |-> 0, slept |-> 0]]
    /\ UNCHANGED <<params, now, cache, blacklist, whitelist, rule, response, hist>>

\* one iteration of its loop: func returns, or raises and the delay is slept
Iterate(t, succeeds) ==
    /\ flight[t].pc = "attempt_func"
    /\ LET f == flight[t] IN
       /\ f.a.left > 0 /\ ~f.a.done
       /\ flight' = [flight EXCEPT ![t] =
              IF succeeds
              THEN [f EXCEPT !.a = attempt_func(f.a, TRUE)]
              ELSE [f EXCEPT !.a = attempt_func(f.a, FALSE),
                             !.delay = delay_next(f.backoff, f.delay),
                             !.slept = delay_next(f.backoff, f.delay),
                             !.fails = @ + 1]]
    /\ UNCHANGED <<params, now, cache, blacklist, whitelist, rule, response, hist>>

\* attempt_func returns
LeaveAttemptFunc(t) ==
    /\ flight[t].pc = "attempt_func"
    /\ flight[t].a.left = 0 \/ flight[t].a.done
    /\ flight' = [flight EXCEPT ![t] = [pc |-> "idle"]]
    /\ UNCHANGED <<params, now, cache, blacklist, whitelist, rule, response, hist>>

BackoffInit == db = "RateLimiter" /\ watch = "" /\ Start

BackoffNext ==
    \/ \E t \in Threads, b \in Backoffs, n \in 0..MaxAttempts : CallAttemptFunc(t, b, n)
    \/ \E t \in Threads, ok \in BOOLEAN : Iterate(t, ok)
    \/ \E t \in Threads : LeaveAttemptFunc(t)

BackoffSpec == BackoffInit /\ [][BackoffNext]_vars

\* ---- update_ip of a handler overlaps with a cycle of its cleanup thread
\* The request runs on thread "t1", the cleanup loop is thread "t2".
Row(c, ip) == [k \in {ip} \cap DOMAIN c |-> c[k]]

\* a cycle ended while the request of t1 was between its read and its write
Swept(fl) ==
    [fl EXCEPT !["t1"] = IF @.pc = "update" THEN [@ EXCEPT !.swept = TRUE] ELSE @]

\* update_ip up to its read of the record: the blacklist test, then the
\* SELECT of Sqlite3Handler or the dictionary lookup of MemoryHandler
BeginUpdate(ip) ==
    /\ db \in {"MemoryHandler", "Sqlite3Handler"}
    /\ flight["t1"].pc = "idle"
    /\ InBounds(ip)
    /\ IF ip \in blacklist
       THEN response' = Reply(ip, "Blacklisted", 0) /\ UNCHANGED flight
       ELSE IF db = "MemoryHandler" /\ ip \notin DOMAIN cache
       THEN response' = Reply(ip, "KeyError", 0) /\ UNCHANGED flight   \* line 237
       ELSE /\ response' = NoReply
            /\ flight' = [flight EXCEPT !["t1"] =
                   [pc |-> "update", ip |-> ip, crtime |-> now,
                    row |-> Row(cache, ip), swept |-> FALSE]]
    /\ UNCHANGED <<params, now, cache, blacklist, whitelist, rule, hist>>

\* the rest of update_ip: what it computed from the record it read is written
\* to the store as the store is now
FinishUpdate ==
    /\ flight["t1"].pc = "update"
    /\ LET f == flight["t1"]
           o == IF db = "MemoryHandler"
                THEN mem_window(f.row, blacklist, f.ip, f.crtime)
                ELSE sql_window(f.row, blacklist, f.ip, f.crtime)
           u == IF f.ip \in DOMAIN o.cache
                THEN update_result(cache, f.ip, o.cache[f.ip])
                ELSE [ok |-> TRUE, cache |-> cache]
       IN  IF db = "MemoryHandler"
           THEN /\ cache' = IF f.ip \in DOMAIN o.cache
                            THEN Put(cache, f.ip, o.cache[f.ip]) ELSE Pop(cache, f.ip)
                /\ blacklist' = o.blacklist
                /\ response' = Reply(f.ip, o.decision, o.retry)
           ELSE IF o.decision = "TypeError"
           THEN /\ response' = Reply(f.ip, "TypeError", 0)
                /\ UNCHANGED <<cache, blacklist>>
           ELSE IF o.decision = "Blacklisted"
           THEN /\ cache' = delete_ip(cache, f.ip)
                /\ blacklist' = sql_blacklist_ip(blacklist, f.ip)
                /\ response' = Reply(f.ip, "Blacklisted", 0)
           ELSE IF f.row = Empty                                  \* INSERT
           THEN /\ cache' = Put(cache, f.ip, o.cache[f.ip])
                /\ response' = Reply(f.ip, o.decision, o.retry)
                /\ UNCHANGED blacklist
           ELSE /\ cache' = u.cache                               \* UPDATE
                /\ response' = IF u.ok THEN Reply(f.ip, o.decision, o.retry)
                               ELSE Reply(f.ip, "IntegrityError", 0)
                /\ UNCHANGED blacklist
    /\ flight' = [flight EXCEPT !["t1"] = [pc |-> "idle"]]
    /\ UNCHANGED <<params, now, whitelist, rule, hist>>

\* Sqlite3Handler.cleanup, one cycle: a single DELETE statement
SqlSweep ==
    /\ db = "Sqlite3Handler"
    /\ now >= cfg.mwd
    /\ cache' = sql_cleanup(cache, now)
    /\ flight' = Swept(flight)
    /\ response' = NoReply
    /\ UNCHANGED <<params, now, blacklist, whitelist, rule, hist>>

\* MemoryHandler.cleanup, one cycle: the comprehension reads the dictionary...
MemSweepRead ==
    /\ db = "MemoryHandler"
    /\ now >= cfg.mwd
    /\ flight["t2"].pc = "idle"
    /\ flight' = [flight EXCEPT !["t2"] =
           [pc |-> "cleanup", kept |-> mem_cleanup(cache, now)]]
    /\ response' = NoReply
    /\ UNCHANGED <<params, now, cache, blacklist, whitelist, rule, hist>>

\* ...and its result is assigned to self._cache
MemSweepAssign ==
    /\ flight["t2"].pc = "cleanup"
    /\ cache' = flight["t2"].kept
    /\ flight' = [Swept(flight) EXCEPT !["t2"] = [pc |-> "idle"]]
    /\ response' = NoReply
    /\ UNCHANGED <<params, now, blacklist, whitelist, rule, hist>>

SweepInit == db \in {"MemoryHandler", "Sqlite3Handler"} /\ watch = "" /\ Start

SweepNext ==
    \/ \E ip \in Keys : BeginUpdate(ip)
    \/ FinishUpdate
    \/ SqlSweep
    \/ MemSweepRead
    \/ MemSweepAssign
    \/ Tick

SweepSpec == SweepInit /\ [][SweepNext]_vars

\* ---- the calls a request makes to the store are recorded
\* a request to a rate-limited route; flight["t1"] keeps its store calls
RouteLogged(ip_str) ==
    /\ InBounds(ip_str)
    /\ Handle(ip_str)
    /\ flight' = [flight EXCEPT !["t1"] =
           [pc |-> "idle", ip |-> ip_str, calls |-> store_calls(ip_str, now)]]

LogInit == db = "RateLimiter" /\ watch = "" /\ Start

LogNext ==
    \/ \E ip \in Keys : RouteLogged(ip)
    \/ \E ip \in Keys : Blacklist(ip)
    \/ \E ip \in Keys : Whitelist(ip)
    \/ \E r \in Rules, o \in BOOLEAN : SetRule(r, o)

LogSpec == LogInit /\ [][LogNext]_vars

\* ---- requests, cleanup cycles and time alone: no operator, no rule
EngineNext ==
    \/ \E ip \in Keys : RateLimitedRoute(ip)
    \/ \E ip \in Keys : UpdateIp(ip)
    \/ Cleanup
    \/ Tick

EngineSpec == Init /\ [][EngineNext]_vars

\* ---- the rule is installed and replaced while requests arrive
RuleInit == db = "RateLimiter" /\ watch = "" /\ Start

RuleNext ==
    \/ \E r \in Rules, o \in BOOLEAN : CallSetRule(r, o)
    \/ \E ip \in Keys : RateLimitedRoute(ip)
    \/ Tick

RuleSpec == RuleInit /\ [][RuleNext]_vars

\* ------------------------------------------- one key, one request a second
\* amount = 3 and a window of 60 s; the key "k1" sends one request at each of
\* t = 0, 1, 2, 3 and nothing else happens.
ScenConfigs(e) == {[c EXCEPT !.amount = 3, !.window = 60] : c \in Configs(e)}

ScenInit ==
    /\ db \in Engines /\ watch = ""
    /\ cfg \in ScenConfigs(db)
    /\ now = 0 /\ cache = Empty /\ blacklist = {} /\ whitelist = {}
    /\ rule = NoRule /\ response = NoReply /\ flight = Idle /\ hist = NoHist

\* the request of this second
ScenArrive == response = NoReply /\ (Route("k1") \/ Update("k1"))

\* the next second
ScenTick ==
    /\ response # NoReply
    /\ now < 3
    /\ now' = now + 1
    /\ response' = NoReply
    /\ UNCHANGED <<params, cache, blacklist, whitelist, rule, flight, hist>>

ScenNext == ScenArrive \/ ScenTick

ScenSpec == ScenInit /\ [][ScenNext]_vars

\* ----------------------------------------------------------------- claims
\* a request is handled by an engine / the sweeper runs
Request(ip) == RateLimitedRoute(ip) \/ UpdateIp(ip)

EngineStep == (\E ip \in Keys : Request(ip)) \/ Cleanup

RuleAccepts(ip) == rule.callable /\ ip \in rule.accepts

\* the key has a record whose window or block is running
Active(ip) == ip \in DOMAIN cache /\ cache[ip].lwrl > now

\* C2: a request of a blacklisted key that no bypass rule accepts is answered
\* Blacklisted and leaves the records, the blacklist and the whitelist as
\* they were.
C2_BlacklistedNoMutation ==
    [][\A ip \in Keys :
         (ip \in blacklist /\ ~RuleAccepts(ip) /\ Request(ip))
         => /\ response' = Reply(ip, "Blacklisted", 0)
            /\ UNCHANGED <<cache, blacklist, whitelist>>]_vars

C2_Witness ==
    /\ response.decision = "Blacklisted"
    /\ response.ip \in blacklist
    /\ response.ip \in DOMAIN cache

\* C3: a request of a whitelisted key is answered Admit and no record is
\* created, changed or removed by it.
C3_WhitelistedAdmitNoWrite ==
    [][\A ip \in Keys :
         (ip \in whitelist /\ Request(ip))
         => /\ response' = Reply(ip, "Admit", 0)
            /\ UNCHANGED <<cache, blacklist, whitelist>>]_vars

C3_Witness ==
    /\ response.decision = "Admit"
    /\ response.ip \in whitelist
    /\ response.ip \notin DOMAIN cache
    /\ ~RuleAccepts(response.ip)

\* the request of ip, were it handled now, is over the limit inside a running
\* window and raises the block count above a finite block limit
Escalates(ip) ==
    /\ ~bypassed(ip) /\ ip \notin blacklist
    /\ Active(ip)
    /\ cache[ip].amount + 1 > cfg.amount
    /\ cfg.block_limit # NoLimit
    /\ cache[ip].blocked + 1 > cfg.block_limit

\* C4: with block_exceed_duration FOREVER the escalating request is answered
\* Blacklisted, and after it the key is blacklisted and has no record.
C4_EscalationBlacklists ==
    [][\A ip \in Keys :
         (cfg.bld = FOREVER /\ Escalates(ip) /\ Request(ip))
         => /\ response'.decision = "Blacklisted"
            /\ ip \in blacklist'
            /\ ip \notin DOMAIN cache']_vars

\* C5 (as claimed): no decision and no sweeper cycle takes a key off the
\* blacklist (a step that does is neither), and every request of a blacklisted key is answered Blacklisted.
C5_BlacklistTerminal ==
    [][/\ ~(blacklist \subseteq blacklist') => ~EngineStep
       /\ \A ip \in Keys :
            (ip \in blacklist /\ Request(ip)) => response'.decision = "Blacklisted"]_vars

\* C5 (amended): no decision and no sweeper cycle takes a key off the
\* blacklist (a step that does is neither), and every request of a blacklisted key that the bypass rule does
\* not accept is answered Blacklisted.
C5_BlacklistTerminalUnlessBypassed ==
    [][/\ ~(blacklist \subseteq blacklist') => ~EngineStep
       /\ \A ip \in Keys :
            (ip \in blacklist /\ ~RuleAccepts(ip) /\ Request(ip))
            => response'.decision = "Blacklisted"]_vars

\* a blacklisted key was answered Blacklisted while another key holds a record
C5_Witness ==
    /\ response.decision = "Blacklisted"
    /\ response.ip \in blacklist
    /\ DOMAIN cache \ {response.ip} # {}
    /\ now > 0

\* C1: without accumulation a window admits exactly amount requests before
\* the first Throttled answer: never more than amount, and amount of them
\* when the first Throttled answer comes.
C1_AmountThenThrottled ==
    (watch # "" /\ ~cfg.accumulate)
    => /\ hist.adm <= cfg.amount
       /\ hist.thrw => hist.adm = cfg.amount

\* C7 (as claimed): with a block limit, a key the operator never blacklisted
\* is answered Blacklisted only after block_limit + 1 Throttled answers.
C7_BlacklistedAfterLimitPlusOne ==
    (/\ response.ip = watch /\ response.decision = "Blacklisted"
     /\ ~hist.admin /\ cfg.block_limit # NoLimit)
    => hist.thr >= cfg.block_limit + 1

\* C7 (amended): with a block limit, a key the operator never blacklisted is
\* answered Blacklisted only after block_limit Throttled answers.
C7_BlacklistedAfterLimit ==
    (/\ response.ip = watch /\ response.decision = "Blacklisted"
     /\ ~hist.admin /\ cfg.block_limit # NoLimit)
    => hist.thr >= cfg.block_limit

C7_Witness ==
    /\ response.ip = watch /\ response.decision = "Blacklisted"
    /\ ~hist.admin /\ cfg.block_limit = 1
    /\ hist.thr = 1

\* what a window is claimed to admit when it was opened over an expired
\* record that stood at used
Quota(used) == cfg.amount + (cfg.amount - used)

\* C8 (as claimed): with accumulation, a window opened after one in which
\* u < amount requests were admitted admits exactly amount + (amount - u)
\* requests before the first Throttled answer.
C8_CarryByRequestsMade ==
    (watch # "" /\ hist.prev /\ hist.u < cfg.amount /\ Quota(hist.u) <= AdmCap)
    => /\ hist.adm <= Quota(hist.u)
       /\ hist.thrw => hist.adm = Quota(hist.u)

\* C8 (amended): with accumulation, a window opened over an expired record
\* whose stored request count is c < amount admits exactly
\* amount + (amount - c) requests before the first Throttled answer.
C8_CarryByStoredCount ==
    (watch # "" /\ hist.prev /\ hist.c < cfg.amount /\ Quota(hist.c) <= AdmCap)
    => /\ hist.adm <= Quota(hist.c)
       /\ hist.thrw => hist.adm = Quota(hist.c)

\* the window of the watched key was opened with credit left of a window that
\* itself was opened with credit, and has now run into its first Throttled
C8_Witness ==
    /\ hist.prev /\ hist.c < hist.u /\ hist.u < cfg.amount
    /\ response.ip = watch /\ response.decision = "Throttled"
    /\ hist.adm = Quota(hist.c)

\* the key is serving a block: its counter is above amount and its expiry ahead
InBlock(ip) == Active(ip) /\ cache[ip].amount > cfg.amount

\* a request of ip would reach the engine's window logic
Counted(ip) == ~bypassed(ip) /\ ip \notin blacklist

\* what a block lasts: block_duration in RateLimiter, the window in update_ip
BlockDuration == IF db = "RateLimiter" THEN cfg.block_duration ELSE cfg.window

\* C9: under relative_block every request during a block leaves the record
\* with expiry now + window.
C9_RelativeBlockRestartsWindow ==
    [][\A ip \in Keys :
         (cfg.relative_block /\ Counted(ip) /\ InBlock(ip) /\ Request(ip))
         => /\ ip \in DOMAIN cache'
            /\ cache'[ip].lwrl = now + cfg.window]_vars

\* C10 (as claimed): without relative_block every request during a block
\* leaves the expiry of the record as it was.
C10_FixedBlockUntouched ==
    [][\A ip \in Keys :
         (/\ ~cfg.relative_block /\ Counted(ip) /\ InBlock(ip) /\ Request(ip)
          /\ ip \in DOMAIN cache')
         => cache'[ip].lwrl = cache[ip].lwrl]_vars

\* C10 (amended): without relative_block every request during a block that
\* does not raise the block count above the block limit leaves the expiry of
\* the record as it was.
C10_FixedBlockUntouchedUnlessEscalated ==
    [][\A ip \in Keys :
         (/\ ~cfg.relative_block /\ Counted(ip) /\ InBlock(ip) /\ ~Escalates(ip)
          /\ Request(ip))
         => /\ ip \in DOMAIN cache'
            /\ cache'[ip].lwrl = cache[ip].lwrl]_vars

\* a key already blocked was throttled again, later than its block began, and
\* its block still ends when it did
C10_Witness ==
    /\ ~cfg.relative_block /\ now > 0
    /\ response.decision = "Throttled"
    /\ response.ip \in DOMAIN cache
    /\ cache[response.ip].blocked = 2
    /\ cache[response.ip].lwrl < now + BlockDuration
    /\ cache[response.ip].lwrl > now

\* C6: requests of one key handled at the same time lose no increment.  Before
\* the first window can have expired, and with no request in progress, the
\* stored count of a key that is not blacklisted is the number of its requests
\* handled, and at most amount of them were answered Admit.
C6_NoLostUpdate ==
    (/\ watch # "" /\ now = 0 /\ flight = Idle
     /\ watch \in DOMAIN cache /\ watch \notin blacklist
     /\ hist.n < AdmCap)
    => /\ cache[watch].amount = hist.n
       /\ hist.adm <= cfg.amount

\* C11: with amount 3 and a window of 60, the requests of an unseen key at
\* t = 0, 1, 2 are answered Admit and its request at t = 3 is answered
\* Throttled with 57 to wait, what is left of the window opened at t = 0.
C11_ScenarioA ==
    response.ip = "k1"
    => IF now < 3 THEN response.decision = "Admit"
       ELSE response = Reply("k1", "Throttled", 57)

\* what inner decides on what a request in progress has read from the store
Decided(f) == inner(f.ip0, f.crtime, f.isbl)

\* C12: a store that fails never changes the answer.  A request whose save or
\* blacklisting was attempted returns the decision inner made on the record it
\* read, whether one attempt succeeded or all of them failed, and never a
\* storage error.
C12_FailedSaveSameAnswer ==
    /\ [](\A t \in RetryThreads :
            flight[t].pc \in {"attempt", "return"}
            => flight[t].r = Decided(flight[t]))
    /\ [][\A t \in RetryThreads :
            (flight[t].pc = "return" /\ flight'[t].pc = "idle")
            => /\ response'.ip = flight[t].ip
               /\ response'.decision = flight[t].r.decision
               /\ response'.decision \in {"Admit", "Throttled"}
               /\ response'.retry = flight[t].r.retry]_vars

\* a request was answered Throttled although none of its saves took effect
C12_Witness ==
    /\ response.decision = "Throttled"
    /\ response.ip \in DOMAIN cache
    /\ cache[response.ip].amount <= cfg.amount
    /\ cfg.der > 0

\* C13: the retry wrapper terminates.  It calls the store at most
\* db_error_retries times and never again after a call that succeeded; it
\* logs its failure message exactly when all db_error_retries calls failed;
\* and every request that enters it leaves it.
C13_RetryTerminates ==
    /\ [](\A t \in RetryThreads :
            flight[t].pc \in {"attempt", "return"}
            => /\ flight[t].calls <= cfg.der
               /\ flight[t].pc = "return"
                  => /\ flight[t].a.critical = ~flight[t].won
                     /\ ~flight[t].won => flight[t].calls = cfg.der)
    /\ [][\A t \in RetryThreads :
            (flight[t].pc = "attempt" /\ flight[t].won /\ flight'[t].pc # "idle")
            => flight'[t].calls = flight[t].calls]_vars
    /\ \A t \in RetryThreads :
            (flight[t].pc = "attempt") ~> (flight[t].pc = "idle")

\* the wrapper gave up after two failed calls
C13_Witness ==
    \E t \in RetryThreads :
        /\ flight[t].pc = "return"
        /\ flight[t].calls = 2 /\ ~flight[t].won /\ flight[t].a.critical

C15_SweepKeepsLists ==
    [][(blacklist' # blacklist \/ whitelist' # whitelist) => ~Cleanup]_vars

\* the row of the watched key, blacklisted by the operator, was swept and the
\* key is still blacklisted
C15_Witness ==
    /\ db = "Sqlite3Handler" /\ cfg.bld # FOREVER
    /\ watch # "" /\ hist.adm > 0 /\ hist.admin
    /\ watch \notin DOMAIN cache /\ watch \in blacklist

\* what the engine answers to a request of ip, and the record it leaves, when
\* it holds no record of ip
Fresh(ip) ==
    IF db = "RateLimiter"
    THEN LET r == inner(check_ip_obj(Pop(cache, ip), ip, now), now, FALSE)
         IN  [reply |-> Reply(ip, r.decision, r.retry),
              stored |-> IF r.write = "save_ip" THEN {r.ip} ELSE {}]
    ELSE LET o == IF db = "MemoryHandler"
                  THEN mem_update_ip(Pop(cache, ip), blacklist, ip, now)
                  ELSE sql_update_ip(Pop(cache, ip), blacklist, ip, now)
         IN  [reply |-> Reply(ip, o.decision, o.retry),
              stored |-> {o.cache[k] : k \in {ip} \cap DOMAIN o.cache}]

\* C16: without accumulate_requests a request that finds an expired record is
\* answered as the request of a never-seen key is, and leaves the record that
\* one would leave.
C16_ExpiredLikeNew ==
    [][\A ip \in Keys :
         (/\ ~cfg.accumulate /\ Counted(ip)
          /\ ip \in DOMAIN cache /\ cache[ip].lwrl <= now
          /\ Request(ip))
         => /\ response' = Fresh(ip).reply
            /\ {cache'[k] : k \in {ip} \cap DOMAIN cache'} = Fresh(ip).stored]_vars

\* the record or the list membership of k differs after the step
Touched(k) ==
    \/ (k \in DOMAIN cache) # (k \in DOMAIN cache')
    \/ k \in DOMAIN cache /\ k \in DOMAIN cache' /\ cache'[k] # cache[k]
    \/ (k \in blacklist) # (k \in blacklist')
    \/ (k \in whitelist) # (k \in whitelist')

C19_SetRuleGuards ==
    [][\A r \in Rules, override \in BOOLEAN :
         CallSetRule(r, override)
         => /\ ~r.callable
               => rule' = rule /\ response'.decision = "ValueError"
            /\ (r.callable /\ rule.callable /\ ~override)
               => rule' = rule /\ response'.decision = "ValueError"
            /\ (r.callable /\ override)
               => rule' = r /\ response'.decision = "None"]_vars

\* a second rule was refused: the rule set first is in place
C19_Witness ==
    /\ response = Reply("", "ValueError", 0)
    /\ rule.callable

\* C20: with delete_data_on_list_change set, no blacklisted key has a record
\* in the store, whatever the interleaving of requests and of the operator's
\* blacklisting: a request that read the record before the key was
\* blacklisted does not bring it back by its save.
C20_NoRecordOfBlacklisted ==
    cfg.ddw => \A k \in blacklist : k \notin DOMAIN cache

\* the credit the claimed window opening carries over from the record of ip
Carry(ip) ==
    IF cfg.accumulate /\ ip \in DOMAIN cache
    THEN Max(0, cfg.amount - cache[ip].amount)
    ELSE 0

\* C21: a request that finds no record of its key, or a record whose expiry
\* has passed, is answered Admit and leaves the record
\* (1 - carry, now + window, 0), where carry is max(0, amount - old count)
\* with accumulate_requests over an expired record and 0 otherwise; the
\* request of a never-seen key does not fail.
C21_WindowInit ==
    [][\A ip \in Keys :
         (~Active(ip) /\ Counted(ip) /\ Request(ip))
         => /\ response' = Reply(ip, "Admit", 0)
            /\ ip \in DOMAIN cache'
            /\ cache'[ip] = IP(1 - Carry(ip), now + cfg.window, 0)]_vars

\* the expiry the claimed procedure holds after its step 5a, before an
\* escalation penalty is added
Step5a(ip) ==
    IF cfg.relative_block \/ cache[ip].amount = cfg.amount
    THEN now + cfg.window
    ELSE cache[ip].lwrl

\* the request of ip would raise its block count above a finite block limit
OverBlockLimit(ip) ==
    /\ Active(ip) /\ Counted(ip)
    /\ cache[ip].amount + 1 > cfg.amount
    /\ cfg.block_limit # NoLimit
    /\ cache[ip].blocked + 1 > cfg.block_limit

\* C22: when an exceeding request raises the block count above a finite
\* block limit and block_exceed_duration is finite, the record afterwards has
\* blocked = 0 under block_exceed_reset and blocked = block_limit otherwise,
\* its expiry is the expiry of step 5a plus block_exceed_duration, and the
\* answer is Throttled with retry = that expiry - now.
C22_FiniteEscalation ==
    [][\A ip \in Keys :
         (cfg.bld # FOREVER /\ OverBlockLimit(ip) /\ Request(ip))
         => /\ ip \in DOMAIN cache'
            /\ cache'[ip].blocked = (IF cfg.ber THEN 0 ELSE cfg.block_limit)
            /\ cache'[ip].lwrl = Step5a(ip) + cfg.bld
            /\ response' = Reply(ip, "Throttled", Step5a(ip) + cfg.bld - now)]_vars

RECURSIVE Pow2(_)
Pow2(n) == IF n = 0 THEN 1 ELSE 2 * Pow2(n - 1)

\* C23: under the Exponential backoff the wrapper sleeps 1 after the first
\* failed attempt and twice the last sleep after each further one: 2^(k-1)
\* after the k-th failure.
C23_ExponentialDelays ==
    \A t \in Threads :
        (/\ flight[t].pc = "attempt_func"
         /\ flight[t].backoff = "Exponential" /\ flight[t].fails >= 1)
        => flight[t].slept = Pow2(flight[t].fails - 1)

\* C24: under the Linear backoff the wrapper sleeps 1 after the first failed
\* attempt and one more after each further one: k after the k-th failure.
C24_LinearDelays ==
    \A t \in Threads :
        (/\ flight[t].pc = "attempt_func"
         /\ flight[t].backoff = "Linear" /\ flight[t].fails >= 1)
        => flight[t].slept = flight[t].fails

\* three attempts failed under the Linear backoff and the third sleep was 3
C24_Witness ==
    \E t \in Threads :
        /\ flight[t].pc = "attempt_func" /\ flight[t].backoff = "Linear"
        /\ flight[t].fails = 3 /\ flight[t].slept = 3

\* the record the request of t1 is about to save
Saving ==
    LET f == flight["t1"]
        o == IF db = "MemoryHandler"
             THEN mem_window(f.row, blacklist, f.ip, f.crtime)
             ELSE sql_window(f.row, blacklist, f.ip, f.crtime)
    IN  IF o.decision \in {"Admit", "Throttled"} /\ f.ip \in DOMAIN o.cache
        THEN {o.cache[f.ip]} ELSE {}

\* C25: a cycle of the cleanup thread that runs while a request is handled
\* never loses the request's write.  The record a request saves after a
\* cycle ended in its midst is in the store unless the record itself is due
\* for removal, and the end of a cycle removes no record that is not due.
C25_SweepLosesNoWrite ==
    /\ [][(flight["t1"].pc = "update" /\ flight["t1"].swept /\ FinishUpdate)
          => \A rec \in Saving :
                rec.lwrl + cfg.mwd > now
                => /\ flight["t1"].ip \in DOMAIN cache'
                   /\ cache'[flight["t1"].ip] = rec]_vars
    /\ [][(SqlSweep \/ MemSweepAssign)
          => \A k \in DOMAIN cache :
                cache[k].lwrl + cfg.mwd > now
                => k \in DOMAIN cache' /\ cache'[k] = cache[k]]_vars

\* the request of ip that flight["t1"] has recorded
Logged(ip) == "calls" \in DOMAIN flight["t1"] /\ flight["t1"].ip = ip

\* C26: the bypass rule is asked before the store.  A request the rule
\* accepts is answered Admit and has made no call to the store: no whitelist
\* or blacklist lookup, no get, no save.
C26_RuleBeforeStore ==
    [][\A ip \in Keys :
         (RuleAccepts(ip) /\ RouteLogged(ip))
         => /\ response' = Reply(ip, "Admit", 0)
            /\ flight'["t1"].calls = << >>
            /\ UNCHANGED <<cache, blacklist, whitelist>>]_vars

\* the rule accepted the request of a key that is on a list, and the list
\* was not looked up
C26_Witness ==
    \E ip \in blacklist \cup whitelist :
        /\ Logged(ip) /\ flight["t1"].calls = << >>
        /\ RuleAccepts(ip) /\ response = Reply(ip, "Admit", 0)

\* C27 (as claimed): the blacklist test comes first; a blacklisted key is
\* answered Blacklisted even when the bypass rule accepts its request.
C27_BlacklistFirst ==
    [][\A ip \in Keys :
         (ip \in blacklist /\ RouteLogged(ip))
         => response' = Reply(ip, "Blacklisted", 0)]_vars

\* C27 (amended): the blacklist test comes after the bypass rule and the
\* whitelist lookup; a blacklisted key is answered Admit when the rule
\* accepts its request and Blacklisted, after both lookups, when it does not.
C27_BlacklistAfterRule ==
    [][\A ip \in Keys :
         (ip \in blacklist /\ RouteLogged(ip))
         => IF RuleAccepts(ip)
            THEN response' = Reply(ip, "Admit", 0)
            ELSE /\ response' = Reply(ip, "Blacklisted", 0)
                 /\ flight'["t1"].calls = <<"is_whitelisted", "is_blacklisted">>]_vars

\* the request of a blacklisted key that is not whitelisted was admitted
\* because the rule accepts it
C27_Witness ==
    \E ip \in blacklist :
        /\ Logged(ip) /\ RuleAccepts(ip)
        /\ response = Reply(ip, "Admit", 0)
        /\ ip \notin whitelist

\* C28: every Throttled answer at time now reports the retry time
\* max(0, expiry - now) for the expiry of the record that the same request
\* stored, and never a negative one.
C28_RetryAfterStoredExpiry ==
    [][\A ip \in Keys :
         (response'.decision = "Throttled" /\ response'.ip = ip /\ Request(ip))
         => /\ ip \in DOMAIN cache'
            /\ response'.retry = Max(0, cache'[ip].lwrl - now)
            /\ response'.retry >= 0]_vars

\* a key was throttled after time 0 and told to wait until its stored expiry
C28_Witness ==
    /\ response.decision = "Throttled" /\ now > 0
    /\ response.ip \in DOMAIN cache
    /\ response.retry = cache[response.ip].lwrl - now
    /\ response.retry > 0

\* C29: with relative_block off the stored request count is bounded: no
\* record ever holds more than amount + 1, however many requests its key
\* sends during a block.
C29_CountCapped ==
    ~cfg.relative_block => \A ip \in DOMAIN cache : cache[ip].amount <= cfg.amount + 1

\* C30: with block_limit = None no request escalates: the engine adds no key
\* to the blacklist, adds block_exceed_duration to no expiry, and answers
\* every request over the limit Throttled, without failing.
C30_NoLimitNoEscalation ==
    [][\A ip \in Keys :
         (cfg.block_limit = NoLimit /\ Counted(ip) /\ Request(ip))
         => /\ blacklist' = blacklist
            /\ (Active(ip) /\ cache[ip].amount + 1 > cfg.amount)
               => /\ response'.decision = "Throttled"
                  /\ ip \in DOMAIN cache'
                  /\ cache'[ip].lwrl \in {cache[ip].lwrl, now + BlockDuration}]_vars

\* the record of ip is that of a key that was throttled, and its expiry has
\* passed
ThrottleOver(ip) ==
    /\ ip \in DOMAIN cache
    /\ cache[ip].amount > cfg.amount
    /\ cache[ip].lwrl <= now

\* C31: a throttled key is rejected only for a time.  Once the expiry of its
\* record has passed, the next request of a key that is not blacklisted is
\* answered Admit and opens a window with blocked = 0.
C31_ThrottleIsTemporary ==
    [][\A ip \in Keys :
         (ThrottleOver(ip) /\ Counted(ip) /\ Request(ip))
         => /\ response' = Reply(ip, "Admit", 0)
            /\ ip \in DOMAIN cache'
            /\ cache'[ip].lwrl = now + cfg.window
            /\ cache'[ip].blocked = 0]_vars

\* C32: a request never shortens a block that is running.  Whenever a
\* request is rejected while the stored expiry of its key is still ahead, the
\* expiry stored after it is not earlier than the one stored before; a
\* penalty of block_exceed_duration is not erased by the next request.
C32_BlockNeverShortened ==
    [][\A ip \in Keys :
         (/\ response'.ip = ip /\ response'.decision \in {"Throttled", "Blacklisted"}
          /\ Active(ip) /\ Request(ip) /\ ip \in DOMAIN cache')
         => cache'[ip].lwrl >= cache[ip].lwrl]_vars

\* C33: no request is served while its key is blocked.  A request that read
\* a record with amount or more requests and an expiry still ahead is never
\* answered Admit, whether its store call succeeded or failed; that includes
\* the request that has the key blacklisted.
C33_BlockedNeverServed ==
    [][\A t \in RetryThreads :
         (/\ flight[t].pc = "return" /\ flight'[t].pc = "idle"
          /\ flight[t].ip0.amount >= cfg.amount
          /\ flight[t].ip0.lwrl > flight[t].crtime)
         => response'.decision # "Admit"]_vars

\* C34: with a finite block limit the block count of every record is
\* bounded: 0 <= blocked <= block_limit + 1 in every reachable state, however
\* many requests a key sends during an escalated block.
C34_BlockCountBounded ==
    cfg.block_limit # NoLimit
    => \A ip \in DOMAIN cache :
          cache[ip].blocked >= 0 /\ cache[ip].blocked <= cfg.block_limit + 1

====
